---- MODULE Spec2Model ----
(***************************************************************************)
(* A model of FocusWriter's Theme (src/src/theme.cpp): the theme store on  *)
(* disk (definition files, icons, the Images directory), the document      *)
(* sessions that name a theme, and one Theme object with its ThemeData.    *)
(*                                                                         *)
(* Strings the code takes apart or builds (theme names, paths, file names, *)
(* the text of an INI value) are sequences of tokens, so that encoding,    *)
(* formatting and parsing are computed and not assumed.                    *)
(***************************************************************************)
EXTENDS Integers, Sequences, FiniteSets, TLC

VARIABLES
    store,     \* theme definition files: file path -> settings (key -> text)
    icons,     \* the icon files that exist in the theme store
    images,    \* the Images directory: file name -> bytes
    sources,   \* image files outside the store: path -> [data, readable]
    sessions,  \* session file -> the theme name it records ("" is the current session)
    theme,     \* the Theme object: [alive, d, m_changed]
    last,      \* what the most recent operation was given and returned
    hist,      \* what earlier operations left behind, for the properties
    ops        \* the number of operations performed, where a specification bounds it

vars == <<store, icons, images, sources, sessions, theme, last, hist, ops>>

----------------------------------------------------------------------------
(* Bounds of the model *)

\* Theme() with an empty name picks "Untitled N"; N stays within this bound.
MaxUntitled == 2
\* The number of copyImage calls the interning specification applies.
MaxCalls == 2
\* The number of operations a behaviour of the round-trip specification performs.
MaxRoundTripOps == 5
\* The number of operations a behaviour of the bounded-field specification performs.
MaxSetterOps == 3
\* The number of operations a behaviour of the renaming specification performs.
MaxRenameOps == 5
\* The number of operations a behaviour of the store specification performs.
MaxStoreOps == 2

----------------------------------------------------------------------------
(* Text *)

Digits == <<"0", "1", "2", "3", "4", "5", "6", "7", "8", "9">>

IsDigit(c) == \E i \in 1..10 : Digits[i] = c

DigitVal(c) == (CHOOSE i \in 1..10 : Digits[i] = c) - 1

RECURSIVE NatToStr(_)
\* QString::number / QString::arg(int) of a non-negative number
NatToStr(n) ==
    IF n < 10 THEN <<Digits[n + 1]>>
    ELSE NatToStr(n \div 10) \o <<Digits[(n % 10) + 1]>>

\* QVariant(int) as QSettings stores it in an INI file
IntToStr(n) == IF n < 0 THEN <<"-">> \o NatToStr(-n) ELSE NatToStr(n)

RECURSIVE DigitsToNat(_, _)
DigitsToNat(s, acc) ==
    IF s = <<>> THEN acc
    ELSE DigitsToNat(Tail(s), acc * 10 + DigitVal(Head(s)))

\* QVariant::toInt() of the text of an INI value: 0 when it is no number
StrToInt(s) ==
    LET neg == s # <<>> /\ Head(s) = "-"
        body == IF neg THEN Tail(s) ELSE s
    IN  IF body = <<>> \/ \E i \in 1..Len(body) : ~IsDigit(body[i]) THEN 0
        ELSE IF neg THEN 0 - DigitsToNat(body, 0) ELSE DigitsToNat(body, 0)

\* QVariant(bool) as QSettings stores it
BoolToStr(b) == IF b THEN <<"true">> ELSE <<"false">>

\* QVariant::toBool() of the text of an INI value
StrToBool(s) == s \notin {<<>>, <<"0">>, <<"false">>}

\* QString::toLower on the suffixes the model uses
toLower(c) ==
    CASE c = "PNG" -> "png"
      [] c = "JPG" -> "jpg"
      [] OTHER -> c

\* The order of file names in a directory listing (QDir::entryList sorts by
\* name): tokens in their character order.
TokenOrder ==
    <<" ", "%2F", "-", ".", ".theme", "0", "1", "2", "3", "4", "5", "6", "7", "8", "9",
      "535cb7081ed98a5220ac3b6d1d490a91c8b69258",
      "550a4877fef75365bec4ac5d8394a4b052482dca",
      ".session", "New", "Old", "Untitled", "extra", "jpg", "png">>

TokenRank(c) ==
    IF \E i \in 1..Len(TokenOrder) : TokenOrder[i] = c
    THEN CHOOSE i \in 1..Len(TokenOrder) : TokenOrder[i] = c
    ELSE Len(TokenOrder) + 1

RECURSIVE NameLess(_, _)
NameLess(a, b) ==
    IF a = <<>> THEN b # <<>>
    ELSE IF b = <<>> THEN FALSE
    ELSE IF TokenRank(Head(a)) # TokenRank(Head(b))
         THEN TokenRank(Head(a)) < TokenRank(Head(b))
         ELSE NameLess(Tail(a), Tail(b))

RECURSIVE entryList(_)
\* QDir::entryList(QDir::Files) of a set of file names
entryList(names) ==
    IF names = {} THEN <<>>
    ELSE LET first == CHOOSE x \in names : \A y \in names \ {x} : NameLess(x, y)
         IN  <<first>> \o entryList(names \ {first})

SeqToSet(s) == {s[i] : i \in 1..Len(s)}

----------------------------------------------------------------------------
(* Files *)

\* A file that does not exist: QFile::size() is 0 and open() fails.
NoFile == [exists |-> FALSE, readable |-> FALSE, data |-> <<>>]

SourceFile(srcs, path) ==
    IF path \in DOMAIN srcs
    THEN [exists |-> TRUE, readable |-> srcs[path].readable, data |-> srcs[path].data]
    ELSE NoFile

ImageFile(imgs, filename) ==
    IF filename \in DOMAIN imgs
    THEN [exists |-> TRUE, readable |-> TRUE, data |-> imgs[filename]]
    ELSE NoFile

\* The bytes one QFile::read(1000) returns
ReadSize == 1000

Chunk(data, pos) ==
    SubSeq(data, pos + 1, IF pos + ReadSize < Len(data) THEN pos + ReadSize ELSE Len(data))

RECURSIVE ReadLoop(_, _, _)
\* while (!file1.atEnd()) { if (file1.read(1000) != file2.read(1000)) ... }
ReadLoop(data1, data2, pos) ==
    IF pos >= Len(data1) THEN TRUE
    ELSE IF Chunk(data1, pos) # Chunk(data2, pos) THEN FALSE
    ELSE ReadLoop(data1, data2, pos + ReadSize)

\* A comparison that stops after lines 44-46: files of one size count as equal
compareFileSizes(file1, file2) ==
    IF Len(file1.data) # Len(file2.data) THEN FALSE
    ELSE file1.exists /\ file1.readable /\ file2.exists /\ file2.readable

\* compareFiles(filename1, filename2), of the two files the names stand for
compareFiles(file1, file2) ==
    IF Len(file1.data) # Len(file2.data) THEN FALSE
    ELSE IF file1.exists /\ file1.readable /\ file2.exists /\ file2.readable
         THEN ReadLoop(file1.data, file2.data, 0)
         ELSE FALSE

----------------------------------------------------------------------------
(* Interning an image: copyImage *)

\* The image paths the model hands to the program
SourcePaths == {<<"/a/one", ".", "PNG">>, <<"/b/two", ".", "png">>}

\* QCryptographicHash::hash(image.toUtf8(), Sha1).toHex(): the digest of the
\* PATH's text
Sha1Hex(image) ==
    CASE image = <<"/a/one", ".", "PNG">> -> "550a4877fef75365bec4ac5d8394a4b052482dca"
      [] image = <<"/b/two", ".", "png">> -> "535cb7081ed98a5220ac3b6d1d490a91c8b69258"
      [] OTHER -> "da39a3ee5e6b4b0d3255bfef95601890afd80709"

\* QFileInfo(image).suffix(): what follows the last "."
suffix(image) ==
    IF \E i \in 1..Len(image) : image[i] = "."
    THEN LET dot == CHOOSE i \in 1..Len(image) :
                        image[i] = "." /\ \A j \in (i + 1)..Len(image) : image[j] # "."
         IN  SubSeq(image, dot + 1, Len(image))
    ELSE <<>>

LowerSuffix(image) == [i \in 1..Len(suffix(image)) |-> toLower(suffix(image)[i])]

RECURSIVE FirstMatch(_, _, _)
\* foreach (filename, filenames) if (compareFiles(image, filePath(filename))) return filename;
\* <<>> when no file of the directory equals the image
FirstMatch(file, filenames, imgs) ==
    IF filenames = <<>> THEN <<>>
    ELSE IF compareFiles(file, ImageFile(imgs, Head(filenames))) THEN Head(filenames)
    ELSE FirstMatch(file, Tail(filenames), imgs)

RECURSIVE FreeName(_, _, _, _)
\* while (images.exists(filename)) { id++; filename = "%1-%2.%3" }
FreeName(base, suf, id, imgs) ==
    LET filename == IF id = 0 THEN <<base, ".">> \o suf
                    ELSE <<base, "-">> \o NatToStr(id) \o <<".">> \o suf
    IN  IF filename \in DOMAIN imgs THEN FreeName(base, suf, id + 1, imgs) ELSE filename

\* QFile::copy(image, target): fails when the source cannot be read or the
\* target exists
FileCopy(file, target, imgs) ==
    IF file.exists /\ file.readable /\ target \notin DOMAIN imgs
    THEN [ok |-> TRUE, images |-> (target :> file.data) @@ imgs]
    ELSE [ok |-> FALSE, images |-> imgs]

\* QFile::copy(image, images.filePath(filename)); return filename;
CopyAs(filename, copy) ==
    [filename |-> filename, images |-> copy.images, copied |-> copy.ok, attempted |-> TRUE]

\* The part of copyImage after the search: the name found, or a new copy
CopyUnlessFound(image, imgs, file, match) ==
    IF match # <<>>
    THEN [filename |-> match, images |-> imgs, copied |-> FALSE, attempted |-> FALSE]
    ELSE CopyAs(FreeName(Sha1Hex(image), LowerSuffix(image), 0, imgs),
                FileCopy(file, FreeName(Sha1Hex(image), LowerSuffix(image), 0, imgs), imgs))

\* A copyImage without the search of lines 70-76: every call makes a copy
copyImageNoDedup(image, imgs, srcs) ==
    CopyUnlessFound(image, imgs, SourceFile(srcs, image), <<>>)

\* copyImage(image): the file name it returns, the directory it leaves, whether
\* it called QFile::copy and whether that copy succeeded
copyImage(image, imgs, srcs) ==
    CopyUnlessFound(image, imgs, SourceFile(srcs, image),
                    FirstMatch(SourceFile(srcs, image), entryList(DOMAIN imgs), imgs))

----------------------------------------------------------------------------
(* The theme store's paths *)

\* QString Theme::m_path
m_path == "/themes"

\* QUrl::toPercentEncoding of one token: letters and digits stay as they are
PercentCode(c) ==
    CASE c = "/" -> "%2F"
      [] c = " " -> "%20"
      [] OTHER -> c

\* QUrl::toPercentEncoding(theme, exclude)
toPercentEncoding(s, exclude) ==
    [i \in 1..Len(s) |-> IF s[i] \in exclude THEN s[i] ELSE PercentCode(s[i])]

filePath(name) == <<m_path, "/">> \o toPercentEncoding(name, {" "}) \o <<".theme">>

iconPath(name) == <<m_path, "/">> \o toPercentEncoding(name, {" "}) \o <<".png">>

----------------------------------------------------------------------------
(* QSettings: a definition file is a map from the keys it holds to their text *)

valueInt(settings, key, default) ==
    IF key \in DOMAIN settings THEN StrToInt(settings[key]) ELSE default

valueBool(settings, key, default) ==
    IF key \in DOMAIN settings THEN StrToBool(settings[key]) ELSE default

valueString(settings, key, default) ==
    IF key \in DOMAIN settings THEN settings[key] ELSE default

setSetting(settings, key, text) == (key :> text) @@ settings

NoSettings == [key \in {} |-> <<>>]

Settings(st, path) == IF path \in DOMAIN st THEN st[path] ELSE NoSettings

----------------------------------------------------------------------------
(* Colours and fonts *)

ColorNames == {"#cccccc", "#000000", "#ff0000"}

\* QColor(): invalid, and name() of it is "#000000"
InvalidColor == [valid |-> FALSE, rgb |-> "#000000", alpha |-> 255]

\* QColor::name(): "#rrggbb", without the alpha channel
ColorName(color) == <<color.rgb>>

\* QColor(const QString&)
ColorFromString(text) ==
    IF Len(text) = 1 /\ text[1] \in ColorNames
    THEN [valid |-> TRUE, rgb |-> text[1], alpha |-> 255]
    ELSE InvalidColor

\* QFont(): the application's font
DefaultFont == [family |-> "Sans", pointSize |-> 9]

\* QFont("Times New Roman")
TimesFont == [family |-> "Times New Roman", pointSize |-> 9]

\* QFont::toString(): "family,pointSize"
FontToString(font) == <<font.family, ",">> \o NatToStr(font.pointSize)

\* QFont::fromString(): leaves the font as it is when the text is no description
FontFromString(font, text) ==
    IF Len(text) >= 3 /\ text[2] = "," /\ \A i \in 3..Len(text) : IsDigit(text[i])
    THEN [family |-> text[1], pointSize |-> StrToInt(SubSeq(text, 3, Len(text)))]
    ELSE font

----------------------------------------------------------------------------
(* ThemeData *)

\* The ranges with foreground_width declared as (50, 9999)
RangesWidthFrom50 ==
    [background_type |-> <<0, 5>>,
     foreground_opacity |-> <<0, 100>>,
     foreground_width |-> <<50, 9999>>,
     foreground_rounding |-> <<0, 100>>,
     foreground_margin |-> <<1, 250>>,
     foreground_padding |-> <<0, 250>>,
     foreground_position |-> <<0, 3>>,
     blur_radius |-> <<1, 128>>,
     shadow_offset |-> <<0, 128>>,
     shadow_radius |-> <<1, 128>>,
     line_spacing |-> <<50, 1000>>,
     paragraph_spacing_above |-> <<0, 1000>>,
     paragraph_spacing_below |-> <<0, 1000>>,
     tab_width |-> <<1, 1000>>]

\* The (min, max) each RangedInt member is constructed with
Ranges ==
    [background_type |-> <<0, 5>>,
     foreground_opacity |-> <<0, 100>>,
     foreground_width |-> <<500, 9999>>,
     foreground_rounding |-> <<0, 100>>,
     foreground_margin |-> <<1, 250>>,
     foreground_padding |-> <<0, 250>>,
     foreground_position |-> <<0, 3>>,
     blur_radius |-> <<1, 128>>,
     shadow_offset |-> <<0, 128>>,
     shadow_radius |-> <<1, 128>>,
     line_spacing |-> <<50, 1000>>,
     paragraph_spacing_above |-> <<0, 1000>>,
     paragraph_spacing_below |-> <<0, 1000>>,
     tab_width |-> <<1, 1000>>]

RangedFields == DOMAIN Ranges

\* RangedInt(min, max): the value a RangedInt starts with
RangedIntInit(field) == Ranges[field][1]

\* RangedInt::operator=(int): the value is bounded to [min, max]
RangedIntAssign(field, value) ==
    IF value < Ranges[field][1] THEN Ranges[field][1]
    ELSE IF value > Ranges[field][2] THEN Ranges[field][2]
    ELSE value

\* Theme::tr("Untitled %1").arg(count)
UntitledName(count) == <<"Untitled", " ">> \o NatToStr(count)

RECURSIVE UntitledCount(_, _)
\* do { count++; } while (QFile::exists(Theme::filePath(untitled)));
UntitledCount(count, st) ==
    IF filePath(UntitledName(count)) \in DOMAIN st THEN UntitledCount(count + 1, st)
    ELSE count

\* ThemeData::ThemeData(name_, create). indent_first_line has no initialiser:
\* its value is whatever the build leaves there.
ThemeData(name_, create, st, indeterminate) ==
    [name |-> IF name_ = <<>> /\ create THEN UntitledName(UntitledCount(1, st)) ELSE name_,
     background_type |-> RangedIntInit("background_type"),
     background_color |-> InvalidColor,
     background_path |-> <<>>,
     background_image |-> <<>>,
     foreground_color |-> InvalidColor,
     foreground_opacity |-> RangedIntInit("foreground_opacity"),
     foreground_width |-> RangedIntInit("foreground_width"),
     foreground_rounding |-> RangedIntInit("foreground_rounding"),
     foreground_margin |-> RangedIntInit("foreground_margin"),
     foreground_padding |-> RangedIntInit("foreground_padding"),
     foreground_position |-> RangedIntInit("foreground_position"),
     blur_enabled |-> FALSE,
     blur_radius |-> RangedIntInit("blur_radius"),
     shadow_enabled |-> FALSE,
     shadow_offset |-> RangedIntInit("shadow_offset"),
     shadow_radius |-> RangedIntInit("shadow_radius"),
     shadow_color |-> InvalidColor,
     text_color |-> InvalidColor,
     text_font |-> DefaultFont,
     misspelled_color |-> InvalidColor,
     indent_first_line |-> indeterminate,
     line_spacing |-> RangedIntInit("line_spacing"),
     paragraph_spacing_above |-> RangedIntInit("paragraph_spacing_above"),
     paragraph_spacing_below |-> RangedIntInit("paragraph_spacing_below"),
     tab_width |-> RangedIntInit("tab_width")]

\* The Theme object before Theme() and after ~Theme()
NoTheme == [alive |-> FALSE, d |-> ThemeData(<<>>, FALSE, NoSettings, FALSE), m_changed |-> FALSE]

\* Theme::operator==
ThemeEquals(d1, d2) ==
    /\ d1.name = d2.name
    /\ d1.background_type = d2.background_type
    /\ d1.background_color = d2.background_color
    /\ d1.background_path = d2.background_path
    /\ d1.background_image = d2.background_image
    /\ d1.foreground_color = d2.foreground_color
    /\ d1.foreground_opacity = d2.foreground_opacity
    /\ d1.foreground_width = d2.foreground_width
    /\ d1.foreground_rounding = d2.foreground_rounding
    /\ d1.foreground_margin = d2.foreground_margin
    /\ d1.foreground_padding = d2.foreground_padding
    /\ d1.foreground_position = d2.foreground_position
    /\ d1.blur_enabled = d2.blur_enabled
    /\ d1.blur_radius = d2.blur_radius
    /\ d1.shadow_enabled = d2.shadow_enabled
    /\ d1.shadow_offset = d2.shadow_offset
    /\ d1.shadow_radius = d2.shadow_radius
    /\ d1.shadow_color = d2.shadow_color
    /\ d1.text_color = d2.text_color
    /\ d1.text_font = d2.text_font
    /\ d1.misspelled_color = d2.misspelled_color
    /\ d1.indent_first_line = d2.indent_first_line
    /\ d1.line_spacing = d2.line_spacing
    /\ d1.paragraph_spacing_above = d2.paragraph_spacing_above
    /\ d1.paragraph_spacing_below = d2.paragraph_spacing_below
    /\ d1.tab_width = d2.tab_width

----------------------------------------------------------------------------
(* Theme::write and Theme::reload *)

\* Theme::write(): the definition file's settings after it. The caller has
\* checked that the name is not empty.
write(d, settings) ==
    (IF d.background_path # <<>> THEN "Background/Image" :> d.background_path
     ELSE NoSettings)
    @@ ("Background/Type" :> IntToStr(d.background_type))
    @@ ("Background/Color" :> ColorName(d.background_color))
    @@ ("Background/ImageFile" :> d.background_image)
    @@ ("Foreground/Color" :> ColorName(d.foreground_color))
    @@ ("Foreground/Opacity" :> IntToStr(d.foreground_opacity))
    @@ ("Foreground/Width" :> IntToStr(d.foreground_width))
    @@ ("Foreground/Rounding" :> IntToStr(d.foreground_rounding))
    @@ ("Foreground/Margin" :> IntToStr(d.foreground_margin))
    @@ ("Foreground/Padding" :> IntToStr(d.foreground_padding))
    @@ ("Foreground/Position" :> IntToStr(d.foreground_position))
    @@ ("ForegroundBlur/Enabled" :> BoolToStr(d.blur_enabled))
    @@ ("ForegroundBlur/Radius" :> IntToStr(d.blur_radius))
    @@ ("ForegroundShadow/Enabled" :> BoolToStr(d.shadow_enabled))
    @@ ("ForegroundShadow/Color" :> ColorName(d.shadow_color))
    @@ ("ForegroundShadow/Radius" :> IntToStr(d.shadow_radius))
    @@ ("ForegroundShadow/Offset" :> IntToStr(d.shadow_offset))
    @@ ("Text/Color" :> ColorName(d.text_color))
    @@ ("Text/Font" :> FontToString(d.text_font))
    @@ ("Text/Misspelled" :> ColorName(d.misspelled_color))
    @@ ("Spacings/IndentFirstLine" :> BoolToStr(d.indent_first_line))
    @@ ("Spacings/LineSpacing" :> IntToStr(d.line_spacing))
    @@ ("Spacings/ParagraphAbove" :> IntToStr(d.paragraph_spacing_above))
    @@ ("Spacings/ParagraphBelow" :> IntToStr(d.paragraph_spacing_below))
    @@ ("Spacings/TabWidth" :> IntToStr(d.tab_width))
    @@ settings

\* Theme::reload(): the ThemeData it leaves, the Images directory after the
\* copyImage it may call, and whether setValue marked the theme changed. The
\* caller has checked that the name is not empty. background_path and
\* background_image are the two values read first, copy the result of the
\* copyImage the code calls when `intern` holds.
Reloaded(d, settings, imgs, background_path, background_image, intern, copy) ==
        [d |->
            [name |-> d.name,
             background_type |->
                 RangedIntAssign("background_type", valueInt(settings, "Background/Type", 0)),
             background_color |->
                 ColorFromString(valueString(settings, "Background/Color", <<"#cccccc">>)),
             background_path |-> background_path,
             background_image |-> IF intern THEN copy.filename ELSE background_image,
             foreground_color |->
                 ColorFromString(valueString(settings, "Foreground/Color", <<"#cccccc">>)),
             foreground_opacity |->
                 RangedIntAssign("foreground_opacity", valueInt(settings, "Foreground/Opacity", 100)),
             foreground_width |->
                 RangedIntAssign("foreground_width", valueInt(settings, "Foreground/Width", 700)),
             foreground_rounding |->
                 RangedIntAssign("foreground_rounding", valueInt(settings, "Foreground/Rounding", 0)),
             foreground_margin |->
                 RangedIntAssign("foreground_margin", valueInt(settings, "Foreground/Margin", 65)),
             foreground_padding |->
                 RangedIntAssign("foreground_padding", valueInt(settings, "Foreground/Padding", 0)),
             foreground_position |->
                 RangedIntAssign("foreground_position", valueInt(settings, "Foreground/Position", 1)),
             blur_enabled |-> valueBool(settings, "ForegroundBlur/Enabled", FALSE),
             blur_radius |->
                 RangedIntAssign("blur_radius", valueInt(settings, "ForegroundBlur/Radius", 32)),
             shadow_enabled |-> valueBool(settings, "ForegroundShadow/Enabled", FALSE),
             shadow_color |->
                 ColorFromString(valueString(settings, "ForegroundShadow/Color", <<"#000000">>)),
             shadow_radius |->
                 RangedIntAssign("shadow_radius", valueInt(settings, "ForegroundShadow/Radius", 8)),
             shadow_offset |->
                 RangedIntAssign("shadow_offset", valueInt(settings, "ForegroundShadow/Offset", 2)),
             text_color |-> ColorFromString(valueString(settings, "Text/Color", <<"#000000">>)),
             text_font |->
                 FontFromString(d.text_font,
                                valueString(settings, "Text/Font", FontToString(TimesFont))),
             misspelled_color |->
                 ColorFromString(valueString(settings, "Text/Misspelled", <<"#ff0000">>)),
             indent_first_line |-> valueBool(settings, "Spacings/IndentFirstLine", FALSE),
             line_spacing |->
                 RangedIntAssign("line_spacing", valueInt(settings, "Spacings/LineSpacing", 100)),
             paragraph_spacing_above |->
                 RangedIntAssign("paragraph_spacing_above",
                                 valueInt(settings, "Spacings/ParagraphAbove", 0)),
             paragraph_spacing_below |->
                 RangedIntAssign("paragraph_spacing_below",
                                 valueInt(settings, "Spacings/ParagraphBelow", 0)),
             tab_width |->
                 RangedIntAssign("tab_width", valueInt(settings, "Spacings/TabWidth", 48))],
         images |-> IF intern THEN copy.images ELSE imgs,
         changed |-> intern,
         interned |-> intern,
         copyFailed |-> intern /\ copy.attempted /\ ~copy.copied]

\* if (!d->background_path.isEmpty() && d->background_image.isEmpty())
\*     setValue(d->background_image, copyImage(d->background_path));
NeedsImage(settings) ==
    /\ valueString(settings, "Background/Image", <<>>) # <<>>
    /\ valueString(settings, "Background/ImageFile", <<>>) = <<>>

reload(d, settings, imgs, srcs) ==
    Reloaded(d, settings, imgs,
             valueString(settings, "Background/Image", <<>>),
             valueString(settings, "Background/ImageFile", <<>>),
             NeedsImage(settings),
             IF NeedsImage(settings)
             THEN copyImage(valueString(settings, "Background/Image", <<>>), imgs, srcs)
             ELSE [filename |-> <<>>, images |-> imgs, copied |-> FALSE, attempted |-> FALSE])

----------------------------------------------------------------------------
(* Theme::copyBackgrounds *)

RECURSIVE CopyLoop(_, _, _, _, _)

\* background_image = copyImage(background_path);
\* settings.setValue("Background/ImageFile", background_image);
\* images.append(background_image);
CopyLoopInterned(themes, st, imgs, srcs, acc, file, copy) ==
    CopyLoop(themes,
             [st EXCEPT ![file] = setSetting(st[file], "Background/ImageFile", copy.filename)],
             copy.images, srcs,
             [referenced |-> acc.referenced \cup {copy.filename},
              copied |-> IF copy.copied THEN acc.copied \cup {copy.filename} ELSE acc.copied,
              failed |-> IF copy.attempted /\ ~copy.copied
                         THEN acc.failed \cup {file} ELSE acc.failed])

\* One definition file of the first loop of copyBackgrounds
CopyLoopBody(themes, st, imgs, srcs, acc, file, background_path, background_image) ==
    IF background_path = <<>> /\ background_image = <<>>
    THEN CopyLoop(themes, st, imgs, srcs, acc)
    ELSE IF background_path # <<>>
            /\ (background_image = <<>> \/ background_image \notin DOMAIN imgs)
    THEN CopyLoopInterned(themes, st, imgs, srcs, acc, file,
                          copyImage(background_path, imgs, srcs))
    ELSE CopyLoop(themes, st, imgs, srcs,
                  [acc EXCEPT !.referenced = @ \cup {background_image}])

\* The first loop of copyBackgrounds, over the store's "*.theme" files in the
\* order of the listing. acc collects the `images` list, the files the
\* loop copied and the definition files whose copy failed.
CopyLoop(themes, st, imgs, srcs, acc) ==
    IF themes = <<>>
    THEN [store |-> st, images |-> imgs, referenced |-> acc.referenced,
          copied |-> acc.copied, failed |-> acc.failed]
    ELSE CopyLoopBody(Tail(themes), st, imgs, srcs, acc,
                      <<m_path, "/">> \o Head(themes),
                      valueString(st[<<m_path, "/">> \o Head(themes)], "Background/Image", <<>>),
                      valueString(st[<<m_path, "/">> \o Head(themes)],
                                  "Background/ImageFile", <<>>))

\* The names of the store's definition files, as QDir(path(), "*.theme") lists them
ThemeFiles(st) == entryList({SubSeq(p, 3, Len(p)) : p \in DOMAIN st})

\* A loop that stops after the first file it removes
DeleteUnusedFirstOnly(loop, deleted) ==
    [store |-> loop.store,
     images |-> [file \in DOMAIN loop.images \ {f \in deleted : \A g \in deleted : ~NameLess(g, f)}
                   |-> loop.images[file]],
     copied |-> loop.copied,
     deleted |-> {f \in deleted : \A g \in deleted : ~NameLess(g, f)},
     failed |-> loop.failed]

\* The second loop of copyBackgrounds: the files of the directory that are not
\* in the list are removed
DeleteUnused(loop, deleted) ==
    [store |-> loop.store,
     images |-> [file \in DOMAIN loop.images \ deleted |-> loop.images[file]],
     copied |-> loop.copied,
     deleted |-> deleted,
     failed |-> loop.failed]

Unused(loop, listed) ==
    DeleteUnused(loop, {file \in SeqToSet(entryList(DOMAIN loop.images)) : file \notin listed})

\* A copyBackgrounds whose list is what the files recorded before the first loop
copyBackgroundsStaleList(st, imgs, srcs) ==
    Unused(CopyLoop(ThemeFiles(st), st, imgs, srcs,
                    [referenced |-> {}, copied |-> {}, failed |-> {}]),
           {valueString(st[p], "Background/ImageFile", <<>>) : p \in DOMAIN st})

UnusedOf(loop) == Unused(loop, loop.referenced)

\* Theme::copyBackgrounds(): the store and the Images directory it leaves, the
\* files it copied, the files it deleted and the definition files whose copy
\* failed
copyBackgrounds(st, imgs, srcs) ==
    UnusedOf(CopyLoop(ThemeFiles(st), st, imgs, srcs,
                      [referenced |-> {}, copied |-> {}, failed |-> {}]))

----------------------------------------------------------------------------
(* Theme::foregroundRect *)

\* The / of C++ on int: the quotient truncated towards zero
IntDiv(a, b) == IF a >= 0 THEN a \div b ELSE 0 - ((0 - a) \div b)

\* A foregroundRect without the std::min of line 328: the width is foreground_width
foregroundRectNoMin(d, size) ==
    LET margin == d.foreground_margin
        width == d.foreground_width
        height == size.height - (margin * 2)
    IN  CASE d.foreground_position = 0 ->
                 [x |-> margin, y |-> margin, width |-> width, height |-> height]
          [] d.foreground_position = 2 ->
                 [x |-> size.width - margin - width, y |-> margin,
                  width |-> width, height |-> height]
          [] d.foreground_position = 3 ->
                 [x |-> margin, y |-> margin,
                  width |-> size.width - (margin * 2), height |-> height]
          [] OTHER ->
                 [x |-> IntDiv(size.width - width, 2), y |-> margin,
                  width |-> width, height |-> height]

\* Theme::foregroundRect(size)
foregroundRect(d, size) ==
    LET margin == d.foreground_margin
        y == margin
        width == IF d.foreground_width < size.width - (margin * 2)
                 THEN d.foreground_width ELSE size.width - (margin * 2)
        height == size.height - (margin * 2)
    IN  CASE d.foreground_position = 0 ->
                 [x |-> margin, y |-> y, width |-> width, height |-> height]
          [] d.foreground_position = 2 ->
                 [x |-> size.width - margin - width, y |-> y,
                  width |-> width, height |-> height]
          [] d.foreground_position = 3 ->
                 [x |-> margin, y |-> y,
                  width |-> size.width - (margin * 2), height |-> height]
          [] OTHER ->
                 [x |-> IntDiv(size.width - width, 2), y |-> y,
                  width |-> width, height |-> height]

----------------------------------------------------------------------------
(* Sessions, and Theme::setName *)

\* The session of the document under edit: Session("")
CurrentSession == <<>>

\* The listing without the files.prepend("") of line 293
SessionFilesOnDisk(sess) == entryList(DOMAIN sess \ {CurrentSession})

\* QDir(Session::path(), "*.session").entryList(QDir::Files); files.prepend("")
SessionFiles(sess) == <<CurrentSession>> \o entryList(DOMAIN sess \ {CurrentSession})

RECURSIVE Cascade(_, _, _, _)
\* foreach (file, files) { Session session(file);
\*     if (session.theme() == d->name) session.setTheme(name); }
Cascade(files, sess, oldName, name) ==
    IF files = <<>> THEN sess
    ELSE Cascade(Tail(files),
                 IF sess[Head(files)] = oldName
                 THEN [sess EXCEPT ![Head(files)] = name] ELSE sess,
                 oldName, name)

RemoveFile(st, path) == [p \in DOMAIN st \ {path} |-> st[p]]

\* A setName that assigns the name without setValue: the Theme is not marked changed
setNameUnmarked(t, name, st, ic, sess) ==
    IF t.d.name # name
    THEN [theme |-> [t EXCEPT !.d.name = name],
          store |-> RemoveFile(st, filePath(t.d.name)),
          icons |-> ic \ {iconPath(t.d.name)},
          sessions |-> Cascade(SessionFiles(sess), sess, t.d.name, name)]
    ELSE [theme |-> t, store |-> st, icons |-> ic, sessions |-> sess]

\* Theme::setName(name): the Theme, the store, the icons and the sessions after it
setName(t, name, st, ic, sess) ==
    IF t.d.name # name
    THEN [theme |-> [t EXCEPT !.d.name = name, !.m_changed = TRUE],
          store |-> RemoveFile(st, filePath(t.d.name)),
          icons |-> ic \ {iconPath(t.d.name)},
          sessions |-> Cascade(SessionFiles(sess), sess, t.d.name, name)]
    ELSE [theme |-> t, store |-> st, icons |-> ic, sessions |-> sess]

\* d->background_image = copyImage(d->background_path);
SetCachedImage(t, path, copy) ==
    [theme |-> [t EXCEPT !.d.background_path = path,
                         !.d.background_image = copy.filename,
                         !.m_changed = TRUE],
     images |-> copy.images,
     interned |-> TRUE,
     copyFailed |-> copy.attempted /\ ~copy.copied]

\* Theme::setBackgroundImage(path): the Theme and the Images directory after it
setBackgroundImage(t, path, imgs, srcs) ==
    IF t.d.background_path # path
    THEN IF path # <<>>
         THEN SetCachedImage(t, path, copyImage(path, imgs, srcs))
         ELSE [theme |-> [t EXCEPT !.d.background_path = path,
                                   !.d.background_image = <<>>,
                                   !.m_changed = TRUE],
               images |-> imgs, interned |-> FALSE, copyFailed |-> FALSE]
    ELSE [theme |-> t, images |-> imgs, interned |-> FALSE, copyFailed |-> FALSE]

\* SettingsFile::saveChanges(): if (m_changed) { write(); m_changed = false; },
\* where Theme::write() returns at once for an empty name
saveChanges(t, st) ==
    IF t.m_changed /\ t.d.name # <<>>
    THEN (filePath(t.d.name) :> write(t.d, Settings(st, filePath(t.d.name)))) @@ st
    ELSE st

----------------------------------------------------------------------------
(* The operations *)

\* One more operation of a behaviour that performs at most `bound` of them
Step(bound) == ops < bound /\ ops' = ops + 1

\* An operation of a behaviour that performs any number of them
Free == ops' = ops

\* What an operation that is neither a write nor a reload does to the history
Forget == [hist EXCEPT !.written = <<>>, !.streak = 0]

\* Theme::Theme(name, create)
ThemeCtor(name, create) ==
    /\ ~theme.alive
    /\ (name = <<>> /\ create) => UntitledCount(1, store) <= MaxUntitled
    /\ \E indeterminate \in BOOLEAN :
           theme' = [alive |-> TRUE,
                     d |-> ThemeData(name, create, store, indeterminate),
                     m_changed |-> FALSE]
    /\ last' = [op |-> "Theme"]
    /\ hist' = [hist EXCEPT !.streak = 0]
    /\ UNCHANGED <<store, icons, images, sources, sessions>>

\* Theme::~Theme()
ThemeDtor ==
    /\ theme.alive
    /\ store' = saveChanges(theme, store)
    /\ theme' = NoTheme
    /\ last' = [op |-> "~Theme", name |-> theme.d.name, wrote |-> theme.m_changed]
    /\ hist' = [hist EXCEPT !.streak = 0,
                            !.written = IF theme.m_changed /\ theme.d.name # <<>>
                                        THEN <<theme.d>> ELSE <<>>]
    /\ UNCHANGED <<icons, images, sources, sessions>>

\* SettingsFile::saveChanges() of a live Theme
SaveChanges ==
    /\ theme.alive
    /\ store' = saveChanges(theme, store)
    /\ theme' = [theme EXCEPT !.m_changed = FALSE]
    /\ last' = [op |-> "saveChanges", name |-> theme.d.name, wrote |-> theme.m_changed]
    /\ hist' = [hist EXCEPT !.streak = 0,
                            !.written = IF theme.m_changed /\ theme.d.name # <<>>
                                        THEN <<theme.d>> ELSE <<>>]
    /\ UNCHANGED <<icons, images, sources, sessions>>

\* Theme::reload()
Reload ==
    /\ theme.alive
    /\ IF theme.d.name = <<>>
       THEN /\ last' = [op |-> "reload", interned |-> FALSE, copyFailed |-> FALSE]
            /\ UNCHANGED <<theme, images>>
       ELSE \E r \in {reload(theme.d, Settings(store, filePath(theme.d.name)),
                               images, sources)} :
                /\ theme' = [theme EXCEPT !.d = r.d, !.m_changed = @ \/ r.changed]
                /\ images' = r.images
                /\ last' = [op |-> "reload", interned |-> r.interned,
                            copyFailed |-> r.copyFailed]
    /\ hist' = [hist EXCEPT !.streak = 0]
    /\ UNCHANGED <<store, icons, sources, sessions>>

\* Theme::setName(name)
SetName(name) ==
    /\ theme.alive
    /\ \E r \in {setName(theme, name, store, icons, sessions)} :
           /\ theme' = r.theme
           /\ store' = r.store
           /\ icons' = r.icons
           /\ sessions' = r.sessions
           /\ last' = [op |-> "setName", oldName |-> theme.d.name, name |-> name,
                       referencing |-> {s \in DOMAIN sessions : sessions[s] = theme.d.name}]
           /\ hist' = [Forget EXCEPT !.cascaded =
                          IF theme.d.name # name
                          THEN @ \cup {s \in DOMAIN sessions : sessions[s] = theme.d.name}
                          ELSE @]
    /\ UNCHANGED <<images, sources>>

\* Theme::setBackgroundImage(path)
SetBackgroundImage(path) ==
    /\ theme.alive
    /\ \E r \in {setBackgroundImage(theme, path, images, sources)} :
           /\ theme' = r.theme
           /\ images' = r.images
           /\ last' = [op |-> "setBackgroundImage", path |-> path,
                       interned |-> r.interned, copyFailed |-> r.copyFailed]
    /\ hist' = Forget
    /\ UNCHANGED <<store, icons, sources, sessions>>

\* The setters of the RangedInt members: setValue(d->field, value)
SetRanged(field, value) ==
    /\ theme.alive
    /\ theme' = [theme EXCEPT !.d[field] = RangedIntAssign(field, value),
                              !.m_changed = @ \/ theme.d[field] # value]
    /\ last' = [op |-> "setRanged", field |-> field, value |-> value]
    /\ hist' = Forget
    /\ UNCHANGED <<store, icons, images, sources, sessions>>

\* The setters of the other members: setValue(d->field, value)
SetMember(field, value) ==
    /\ theme.alive
    /\ theme' = [theme EXCEPT !.d[field] = value,
                              !.m_changed = @ \/ theme.d[field] # value]
    /\ last' = [op |-> "setMember", field |-> field]
    /\ hist' = Forget
    /\ UNCHANGED <<store, icons, images, sources, sessions>>

\* Theme::foregroundRect(size)
ForegroundRect(size) ==
    /\ theme.alive
    /\ last' = [op |-> "foregroundRect", size |-> size,
                rect |-> foregroundRect(theme.d, size)]
    /\ hist' = Forget
    /\ UNCHANGED <<store, icons, images, sources, sessions, theme>>

\* Theme::copyBackgrounds()
CopyBackgrounds ==
    /\ \E r \in {copyBackgrounds(store, images, sources)} :
           /\ store' = r.store
           /\ images' = r.images
           /\ last' = [op |-> "copyBackgrounds", copied |-> r.copied,
                       deleted |-> r.deleted, failed |-> r.failed, before |-> store]
           /\ hist' = [hist EXCEPT !.written = <<>>,
                                   !.streak = IF @ < 2 THEN @ + 1 ELSE @,
                                   !.worked = IF hist.streak = 0
                                              THEN r.copied # {} \/ r.deleted # {}
                                              ELSE @]
    /\ UNCHANGED <<icons, sources, sessions, theme>>

\* One call of copyImage(image)
CopyImage(image) ==
    /\ \E r \in {copyImage(image, images, sources)} :
           /\ images' = r.images
           /\ last' = [op |-> "copyImage", image |-> image, filename |-> r.filename]
           /\ hist' = [Forget EXCEPT !.calls =
                          Append(@, [image |-> image, filename |-> r.filename,
                                     before |-> DOMAIN images, after |-> DOMAIN r.images])]
    /\ UNCHANGED <<store, icons, sources, sessions, theme>>

\* A session is given another theme (Session::setTheme, by the theme manager)
SessionSetTheme(session, name) ==
    /\ sessions' = (session :> name) @@ sessions
    /\ last' = [op |-> "Session::setTheme"]
    /\ hist' = [Forget EXCEPT !.cascaded = @ \ {session}]
    /\ UNCHANGED <<store, icons, images, sources, theme>>

\* The theme manager saves the icon of the theme it shows
SaveIcon ==
    /\ theme.alive
    /\ icons' = icons \cup {iconPath(theme.d.name)}
    /\ last' = [op |-> "saveIcon"]
    /\ hist' = Forget
    /\ UNCHANGED <<store, images, sources, sessions, theme>>

----------------------------------------------------------------------------
(* What the specifications start from *)

Old == <<"Old">>

New == <<"New">>

ThemeNames == {<<>>, Old, New}

SessionNames == {CurrentSession, <<"1", ".session">>, <<"2", ".session">>}

NoHistory ==
    [written |-> <<>>, cascaded |-> {}, calls |-> <<>>, streak |-> 0, worked |-> FALSE]

\* A definition file as a Theme that was loaded from nothing writes it
DefaultSettings ==
    write(reload(ThemeData(Old, FALSE, NoSettings, FALSE), NoSettings, NoSettings, NoSettings).d,
          NoSettings)

----------------------------------------------------------------------------
(* Renaming a theme that sessions use *)

InitRename ==
    /\ store = (filePath(Old) :> DefaultSettings)
    /\ icons = {iconPath(Old)}
    /\ images = NoSettings
    /\ sources = NoSettings
    /\ sessions \in [SessionNames -> {Old, New}]
    /\ theme = NoTheme
    /\ last = [op |-> "init"]
    /\ hist = NoHistory
    /\ ops = 0

NextRename ==
    \/ \E name \in ThemeNames : ThemeCtor(name, FALSE) /\ Step(MaxRenameOps)
    \/ \E name \in ThemeNames : SetName(name) /\ Step(MaxRenameOps)
    \/ ThemeDtor /\ Step(MaxRenameOps)
    \/ SaveIcon /\ Step(MaxRenameOps)
    \/ \E session \in SessionNames, name \in {Old, New} :
           SessionSetTheme(session, name) /\ Step(MaxRenameOps)

SpecRename == InitRename /\ [][NextRename]_vars

\* C1: after setName(newName) on a theme named oldName (oldName # newName),
\* every session that recorded oldName, the current session included, records
\* newName, and neither the definition file nor the icon of oldName exists.
RenameCascades ==
    (last.op = "setName" /\ last.oldName # last.name) =>
        /\ \A s \in last.referencing : sessions[s] = last.name
        /\ filePath(last.oldName) \notin DOMAIN store
        /\ iconPath(last.oldName) \notin icons

\* Three sessions, the current one among them, named "Old" and the theme was
\* renamed to "New".
RenameCascadesWitness ==
    /\ last.op = "setName"
    /\ last.oldName = Old
    /\ last.name = New
    /\ last.referencing = SessionNames
    /\ \A s \in SessionNames : sessions[s] = New

\* C2 as stated: when a rename (to a name that is not empty) has completed, the
\* new name has a definition file, so that every session that referenced the
\* old name references a name that has one.
RenamePersistsAtOnce ==
    (last.op = "setName" /\ last.oldName # last.name /\ last.name # <<>>) =>
        \A s \in last.referencing : filePath(sessions[s]) \in DOMAIN store

\* C2 as amended: setName only marks the Theme changed; once no change is
\* pending (the Theme was destroyed, which saves it), every session a rename
\* moved to a non-empty name records a name that has a definition file.
RenamePersistsOnDisposal ==
    (~theme.alive \/ ~theme.m_changed) =>
        \A s \in hist.cascaded :
            sessions[s] # <<>> => filePath(sessions[s]) \in DOMAIN store

RenamePersistsWitness ==
    /\ last.op = "~Theme"
    /\ last.wrote
    /\ last.name = New
    /\ hist.cascaded = SessionNames
    /\ \A s \in SessionNames : sessions[s] = New
    /\ filePath(New) \in DOMAIN store
    /\ filePath(Old) \notin DOMAIN store

----------------------------------------------------------------------------
(* The panel's rectangle *)

LayoutMargins == {1, 50, 250}

LayoutWidths == {500, 700, 9999}

LayoutPositions == 0..3

Sizes ==
    {[width |-> 1000, height |-> 600], [width |-> 100, height |-> 600],
     [width |-> 640, height |-> 480], [width |-> 1, height |-> 1]}

InitLayout ==
    /\ store = NoSettings
    /\ icons = {}
    /\ images = NoSettings
    /\ sources = NoSettings
    /\ sessions = (CurrentSession :> Old)
    /\ \E margin \in LayoutMargins, width \in LayoutWidths, position \in LayoutPositions,
          indeterminate \in BOOLEAN :
           theme = [alive |-> TRUE,
                    d |-> [ThemeData(Old, FALSE, NoSettings, indeterminate) EXCEPT
                              !.foreground_margin = margin,
                              !.foreground_width = width,
                              !.foreground_position = position],
                    m_changed |-> TRUE]
    /\ last = [op |-> "init"]
    /\ hist = NoHistory
    /\ ops = 0

NextLayout ==
    \/ \E size \in Sizes : ForegroundRect(size) /\ Free
    \/ \E value \in LayoutMargins : SetRanged("foreground_margin", value) /\ Free
    \/ \E value \in LayoutWidths : SetRanged("foreground_width", value) /\ Free
    \/ \E value \in LayoutPositions : SetRanged("foreground_position", value) /\ Free

SpecLayout == InitLayout /\ [][NextLayout]_vars

\* C8: foregroundRect(size) returns y = margin, height = size.height - 2*margin,
\* width = min(configured width, size.width - 2*margin) (Stretched: exactly
\* size.width - 2*margin), x = margin for Left and Stretched, size.width -
\* margin - width for Right, (size.width - width) / 2 for Centered; the width
\* never exceeds size.width - 2*margin; and size (1000,600), margin 50, width
\* 700 gives (150,50,700,500), (50,50,700,500), (250,50,700,500), (50,50,900,500).
PanelLayout ==
    last.op = "foregroundRect" =>
        LET margin == theme.d.foreground_margin
            position == theme.d.foreground_position
            size == last.size
            rect == last.rect
            room == size.width - 2 * margin
            effective == IF position = 3 \/ room < theme.d.foreground_width
                         THEN room ELSE theme.d.foreground_width
        IN  /\ rect.y = margin
            /\ rect.height = size.height - 2 * margin
            /\ rect.width = effective
            /\ rect.width <= room
            /\ position \in {0, 3} => rect.x = margin
            /\ position = 2 => rect.x = size.width - margin - effective
            /\ position = 1 => rect.x = (size.width - effective) \div 2
            /\ (size = [width |-> 1000, height |-> 600] /\ margin = 50
                    /\ theme.d.foreground_width = 700) =>
                   rect = [x |-> CASE position = 0 -> 50
                                   [] position = 1 -> 150
                                   [] position = 2 -> 250
                                   [] position = 3 -> 50,
                           y |-> 50,
                           width |-> IF position = 3 THEN 900 ELSE 700,
                           height |-> 500]
            /\ (size.width = 100 /\ margin = 1 /\ theme.d.foreground_width = 9999) =>
                   rect.width = 98

PanelLayoutWitness ==
    /\ last.op = "foregroundRect"
    /\ last.size = [width |-> 1000, height |-> 600]
    /\ theme.d.foreground_margin = 50
    /\ theme.d.foreground_width = 700
    /\ theme.d.foreground_position = 2
    /\ last.rect = [x |-> 250, y |-> 50, width |-> 700, height |-> 500]

----------------------------------------------------------------------------
(* Interning images *)

PathOne == <<"/a/one", ".", "PNG">>

PathTwo == <<"/b/two", ".", "png">>

ExtraImage == <<"extra", ".", "png">>

HashOneImage == <<Sha1Hex(PathOne), ".", "png">>

\* The contents a file of the model may have
FileData == {<<>>, <<0>>, <<1>>, <<0, 1>>}

\* A map from some of the names in `names` to a value in `values`
PartialMaps(names, values) == UNION {[chosen -> values] : chosen \in SUBSET names}

InitIntern ==
    /\ store = NoSettings
    /\ icons = {}
    /\ images \in {(IF extra = {} THEN NoSettings
                    ELSE ExtraImage :> (CHOOSE data \in extra : TRUE))
                   @@ hashed :
                      extra \in {{}} \cup {{data} : data \in {<<>>, <<0>>, <<1>>}},
                      hashed \in PartialMaps({HashOneImage}, {<<0>>, <<1>>})}
    /\ sources \in PartialMaps(SourcePaths, [data : FileData, readable : BOOLEAN])
    /\ sessions = (CurrentSession :> Old)
    /\ theme = NoTheme
    /\ last = [op |-> "init"]
    /\ hist = NoHistory
    /\ ops = 0

NextIntern ==
    \E image \in SourcePaths : CopyImage(image) /\ Step(MaxCalls)

SpecIntern == InitIntern /\ [][NextIntern]_vars

Readable(path) == path \in DOMAIN sources /\ sources[path].readable

\* C6: of two calls of copyImage on readable files at different paths, both
\* return the same file name when the files hold the same bytes, and two
\* different names when the files have the same size and different bytes,
\* whatever the Images directory held.
DedupCorrect ==
    \A i, j \in 1..Len(hist.calls) :
        LET a == hist.calls[i]
            b == hist.calls[j]
        IN  (i < j /\ a.image # b.image /\ Readable(a.image) /\ Readable(b.image)) =>
                /\ sources[a.image].data = sources[b.image].data =>
                       a.filename = b.filename
                /\ (Len(sources[a.image].data) = Len(sources[b.image].data)
                        /\ sources[a.image].data # sources[b.image].data) =>
                       a.filename # b.filename

\* Two files with the same bytes at two paths, the first of which copyImage
\* had to copy, were given one name.
DedupCorrectWitness ==
    /\ Len(hist.calls) = 2
    /\ hist.calls[1].image # hist.calls[2].image
    /\ Readable(PathOne) /\ Readable(PathTwo)
    /\ sources[PathOne].data = sources[PathTwo].data
    /\ hist.calls[1].after # hist.calls[1].before
    /\ hist.calls[1].filename = hist.calls[2].filename

\* C7: of two calls of copyImage on the same readable file, both return the
\* same name, the first created at most one file, the second created none, and
\* the file of that name holds the source's bytes.
DedupIdempotent ==
    \A i, j \in 1..Len(hist.calls) :
        LET a == hist.calls[i]
            b == hist.calls[j]
        IN  (i < j /\ a.image = b.image /\ Readable(a.image)) =>
                /\ a.filename = b.filename
                /\ Cardinality(a.after \ a.before) <= 1
                /\ b.after = b.before
                /\ a.filename \in DOMAIN images
                /\ images[a.filename] = sources[a.image].data

DedupIdempotentWitness ==
    /\ Len(hist.calls) = 2
    /\ hist.calls[1].image = hist.calls[2].image
    /\ Readable(hist.calls[1].image)
    /\ Cardinality(hist.calls[1].after \ hist.calls[1].before) = 1
    /\ hist.calls[2].after = hist.calls[1].after
    /\ hist.calls[1].filename = hist.calls[2].filename

----------------------------------------------------------------------------
(* The store's images: interning from a Theme, and copyBackgrounds *)

\* A definition file with the given Background/Image and Background/ImageFile
StoredTheme(image, imageFile) ==
    (IF image # <<>> THEN "Background/Image" :> image ELSE NoSettings)
    @@ ("Background/ImageFile" :> imageFile)
    @@ DefaultSettings

InitStore ==
    /\ store \in
         {(filePath(Old) :> StoredTheme(image, imageFile)) @@ other :
            image \in {<<>>, PathOne, PathTwo},
            imageFile \in {<<>>, ExtraImage, HashOneImage},
            other \in {NoSettings,
                       filePath(New) :> StoredTheme(PathOne, <<>>),
                       filePath(New) :> StoredTheme(<<>>, ExtraImage)}}
    /\ icons = {}
    /\ images \in {extra @@ hashed :
                      extra \in PartialMaps({ExtraImage}, {<<0>>}),
                      hashed \in PartialMaps({HashOneImage}, {<<0>>, <<1>>})}
    /\ sources \in {one @@ two :
                      one \in PartialMaps({PathOne}, [data : {<<0>>, <<1>>}, readable : {TRUE}]),
                      two \in PartialMaps({PathTwo}, [data : {<<0>>}, readable : BOOLEAN])}
    /\ sessions = (CurrentSession :> Old)
    /\ theme = NoTheme
    /\ last = [op |-> "init"]
    /\ hist = NoHistory
    /\ ops = 0

NextStore ==
    \/ CopyBackgrounds /\ Step(MaxStoreOps)
    \/ ThemeCtor(Old, FALSE) /\ Step(MaxStoreOps)
    \/ \E path \in {<<>>} \cup SourcePaths : SetBackgroundImage(path) /\ Step(MaxStoreOps)
    \/ Reload /\ Step(MaxStoreOps)
    \/ SaveChanges /\ Step(MaxStoreOps)
    \/ ThemeDtor /\ Step(MaxStoreOps)

SpecStore == InitStore /\ [][NextStore]_vars

\* The cached file names the store's definition files record
Recorded(st) == {valueString(st[p], "Background/ImageFile", <<>>) : p \in DOMAIN st}

\* C4: when the copy into the Images directory fails, no cached file name is
\* recorded: the Theme's background_image is not a name of no file after
\* setBackgroundImage or reload, and copyBackgrounds leaves the definition
\* file as it was.
CopyFailureRecordsNothing ==
    /\ (last.op \in {"setBackgroundImage", "reload"} /\ last.copyFailed) =>
           theme.d.background_image = <<>>
    /\ last.op = "copyBackgrounds" =>
           \A file \in last.failed : store[file] = last.before[file]

\* C5: the second of two copyBackgrounds runs in a row deletes no file and
\* copies no file.
GcIdempotent ==
    (last.op = "copyBackgrounds" /\ hist.streak >= 2) =>
        last.deleted = {} /\ last.copied = {}

\* The first of the two runs copied or deleted something.
GcIdempotentWitness ==
    /\ last.op = "copyBackgrounds"
    /\ hist.streak = 2
    /\ hist.worked
    /\ DOMAIN images # {}

\* C10: when copyBackgrounds has run, every file left in the Images directory
\* is the cached file name some definition file records, and the run deleted
\* no file that a definition file records.
GcDeletesUnreferenced ==
    last.op = "copyBackgrounds" =>
        /\ DOMAIN images \subseteq Recorded(store)
        /\ last.deleted \cap Recorded(store) = {}

\* A run that interned an image, recorded it, and deleted another file.
GcDeletesWitness ==
    /\ last.op = "copyBackgrounds"
    /\ last.copied # {}
    /\ last.deleted # {}
    /\ last.copied \subseteq DOMAIN images
    /\ last.copied \subseteq Recorded(store)

----------------------------------------------------------------------------
(* Writing a theme and loading it again *)

\* A colour with an alpha channel, as a colour dialog hands it to a setter
TranslucentRed == [valid |-> TRUE, rgb |-> "#ff0000", alpha |-> 128]

OpaqueRed == [valid |-> TRUE, rgb |-> "#ff0000", alpha |-> 255]

InitRoundTrip ==
    /\ store \in {NoSettings,
                  filePath(Old) :> DefaultSettings,
                  filePath(Old) :> StoredTheme(PathOne, HashOneImage)}
    /\ icons = {}
    /\ images = (HashOneImage :> <<0>>)
    /\ sources = (PathOne :> [data |-> <<0>>, readable |-> TRUE])
    /\ sessions = (CurrentSession :> Old)
    /\ theme = NoTheme
    /\ last = [op |-> "init"]
    /\ hist = NoHistory
    /\ ops = 0

NextRoundTrip ==
    \/ ThemeCtor(Old, FALSE) /\ Step(MaxRoundTripOps)
    \/ Reload /\ Step(MaxRoundTripOps)
    \/ \E path \in {<<>>, PathOne} : SetBackgroundImage(path) /\ Step(MaxRoundTripOps)
    \/ SetRanged("foreground_width", 600) /\ Step(MaxRoundTripOps)
    \/ \E value \in {TranslucentRed, OpaqueRed} :
           SetMember("text_color", value) /\ Step(MaxRoundTripOps)
    \/ SaveChanges /\ Step(MaxRoundTripOps)
    \/ ThemeDtor /\ Step(MaxRoundTripOps)

SpecRoundTrip == InitRoundTrip /\ [][NextRoundTrip]_vars

ColorFields ==
    {"background_color", "foreground_color", "shadow_color", "text_color", "misspelled_color"}

\* Every colour of the parameter set is a valid colour without transparency
Opaque(d) == \A field \in ColorFields : d[field].valid /\ d[field].alpha = 255

\* C3: a reload() that follows a write() of the same theme, with no change to
\* the definition file in between, leaves a parameter set equal under
\* operator== to the one that was written. The parameter sets are those whose
\* colours are valid and opaque.
WriteThenReloadEqual ==
    (/\ last.op = "reload"
     /\ hist.written # <<>>
     /\ hist.written[1].name = theme.d.name
     /\ Opaque(hist.written[1])) =>
        ThemeEquals(theme.d, hist.written[1])

----------------------------------------------------------------------------
(* The bounded fields *)

\* The keys of a definition file that reload() reads with toInt()
IntKeys ==
    {"Background/Type", "Foreground/Opacity", "Foreground/Width", "Foreground/Rounding",
     "Foreground/Margin", "Foreground/Padding", "Foreground/Position",
     "ForegroundBlur/Radius", "ForegroundShadow/Radius", "ForegroundShadow/Offset",
     "Spacings/LineSpacing", "Spacings/ParagraphAbove", "Spacings/ParagraphBelow",
     "Spacings/TabWidth"}

\* A definition file whose integers all have the same text
IntegersAre(text) == [key \in IntKeys |-> text] @@ DefaultSettings

\* The integers a setter is given: below every range, inside some, above every range
SetterValues == {0 - 1, 75, 10000}

InitBounded ==
    /\ store \in {NoSettings,
                  filePath(Old) :> IntegersAre(IntToStr(0 - 7)),
                  filePath(Old) :> IntegersAre(IntToStr(12345)),
                  filePath(Old) :> IntegersAre(<<"x">>)}
    /\ icons = {}
    /\ images = NoSettings
    /\ sources = NoSettings
    /\ sessions = (CurrentSession :> Old)
    /\ theme = NoTheme
    /\ last = [op |-> "init"]
    /\ hist = NoHistory
    /\ ops = 0

NextBounded ==
    \/ ThemeCtor(Old, FALSE) /\ Step(MaxSetterOps)
    \/ ThemeCtor(<<>>, TRUE) /\ Step(MaxSetterOps)
    \/ Reload /\ Step(MaxSetterOps)
    \/ \E field \in RangedFields, value \in SetterValues :
           SetRanged(field, value) /\ Step(MaxSetterOps)
    \/ ThemeDtor /\ Step(MaxSetterOps)

SpecBounded == InitBounded /\ [][NextBounded]_vars

\* The value inside [low, high] nearest to value
Clamp(value, low, high) ==
    IF value < low THEN low ELSE IF value > high THEN high ELSE value

\* The inclusive range each bounded field is declared with
DeclaredRange(field) ==
    CASE field = "background_type" -> <<0, 5>>
      [] field = "foreground_opacity" -> <<0, 100>>
      [] field = "foreground_width" -> <<500, 9999>>
      [] field = "foreground_rounding" -> <<0, 100>>
      [] field = "foreground_margin" -> <<1, 250>>
      [] field = "foreground_padding" -> <<0, 250>>
      [] field = "foreground_position" -> <<0, 3>>
      [] field = "blur_radius" -> <<1, 128>>
      [] field = "shadow_offset" -> <<0, 128>>
      [] field = "shadow_radius" -> <<1, 128>>
      [] field = "line_spacing" -> <<50, 1000>>
      [] field = "paragraph_spacing_above" -> <<0, 1000>>
      [] field = "paragraph_spacing_below" -> <<0, 1000>>
      [] field = "tab_width" -> <<1, 1000>>

\* C9: every bounded field of a theme lies within its declared inclusive
\* range after every construction, setter call and reload(), and the value
\* read after a setter was given v is v bounded to the field's range.
BoundedFieldsInRange ==
    /\ theme.alive =>
           \A field \in RangedFields :
               /\ theme.d[field] >= DeclaredRange(field)[1]
               /\ theme.d[field] <= DeclaredRange(field)[2]
    /\ last.op = "setRanged" =>
           theme.d[last.field] =
               Clamp(last.value, DeclaredRange(last.field)[1], DeclaredRange(last.field)[2])

\* A theme that reload() filled from a file of integers outside every range
\* and whose width a setter was then given a value below its range.
BoundedFieldsWitness ==
    /\ theme.alive
    /\ last.op = "setRanged"
    /\ last.field = "foreground_width"
    /\ last.value < 500
    /\ theme.d.tab_width = 1000
    /\ theme.d.foreground_width = 500

====
